---- MODULE Spec2Model ----
(***************************************************************************)
(* BenchAPIDAO (src/bench.py): the paginated pull of transactions from the *)
(* Bench REST API, the retry loop of one page fetch, the parsing of the    *)
(* JSON transaction objects and the two balance aggregations.              *)
(*                                                                         *)
(* Dates are ISO strings in the program, compared lexicographically; here  *)
(* a date is a day number, which has the same order.  Amounts are Python   *)
(* floats; here a float is an integer of FloatBits significant bits, and   *)
(* an addition rounds its result to the nearest one (ties to even).  A     *)
(* JSON object is a record whose DOMAIN is the set of keys it carries.  A  *)
(* JSON string that is converted by float() is a sequence of characters.   *)
(***************************************************************************)
EXTENDS Integers, Sequences, FiniteSets, TLC

(* ------------------------------ bounds --------------------------------- *)
\* longest "transactions" array a response carries
MaxPerPage == 2
\* largest totalCount a response reports
MaxTotal == 2
\* highest page number the server answers
MaxPage == 2
\* pull_all_transactions calls on one object
MaxPulls == 2
\* records the collection holds at most
MaxRecords == 3
\* significant bits of a float (53 in CPython); every integer below
\* 2^FloatBits is a float, above it only every second, fourth, ... one
FloatBits == 3

(* --------------------------- program constants ------------------------- *)
MAX_NUM_REQUEST_TRIES == 2

\* Python's None for total_count (server totals are >= 0)
None == -1

(* ------------------------------ JSON values ---------------------------- *)
Str(text) == [kind |-> "str", text |-> text]
Num(n) == [kind |-> "num", num |-> n]
Null == [kind |-> "null"]

Restrict(f, K) == [k \in K |-> f[k]]

TransactionKeys == {"Date", "Ledger", "Amount", "Company"}

\* well-formed transaction objects, as the API documents them
GoodObjects ==
  { [Date |-> 2, Ledger |-> "Beer", Amount |-> Str(<<"-", "2">>), Company |-> "Bench"],
    [Date |-> 1, Ledger |-> "CIBC", Amount |-> Num(3), Company |-> "Bench"],
    [Date |-> 2, Ledger |-> "CIBC", Amount |-> Str(<<"1">>), Company |-> "Bench"] }

\* transaction objects with a key missing or an Amount that is no numeral
BadObjects ==
  { Restrict(o, TransactionKeys \ {k}) :
        o \in { [Date |-> 1, Ledger |-> "Beer", Amount |-> Num(1), Company |-> "Bench"] },
        k \in TransactionKeys }
  \cup
  { [Date |-> 1, Ledger |-> "Beer", Amount |-> Str(<<"a">>), Company |-> "Bench"],
    [Date |-> 1, Ledger |-> "Beer", Amount |-> Str(<<"-">>), Company |-> "Bench"],
    [Date |-> 1, Ledger |-> "Beer", Amount |-> Str(<< >>), Company |-> "Bench"],
    [Date |-> 1, Ledger |-> "Beer", Amount |-> Null, Company |-> "Bench"],
    [Date |-> 1, Ledger |-> "Beer", Amount |-> Null],
    [Ledger |-> "Beer", Amount |-> Null, Company |-> "Bench"] }

SeqsUpTo(S, n) == UNION { [1..k -> S] : k \in 0..n }

(* ------------------------------- float() ------------------------------- *)
DigitValue(c) ==
  CASE c = "0" -> 0 [] c = "1" -> 1 [] c = "2" -> 2 [] c = "3" -> 3 [] c = "4" -> 4
    [] c = "5" -> 5 [] c = "6" -> 6 [] c = "7" -> 7 [] c = "8" -> 8 [] c = "9" -> 9
    [] OTHER -> -1

RECURSIVE DigitsValue(_)
\* value of a run of decimal digits, -1 when it is empty or holds another character
DigitsValue(text) ==
  IF Len(text) = 0 THEN -1
  ELSE LET d == DigitValue(text[Len(text)])
           front == SubSeq(text, 1, Len(text) - 1)
       IN IF d = -1 THEN -1
          ELSE IF Len(front) = 0 THEN d
          ELSE LET v == DigitsValue(front)
               IN IF v = -1 THEN -1 ELSE 10 * v + d

Abs(x) == IF x < 0 THEN 0 - x ELSE x

RECURSIVE UnitOf(_, _)
\* the spacing of the floats around magnitude a: the least u = 1, 2, 4, ...
\* with a < 2^FloatBits * u
UnitOf(a, u) == IF a < (2 ^ FloatBits) * u THEN u ELSE UnitOf(a, 2 * u)

\* the float nearest to x, the one with the even significand on a tie
Round(x) ==
  LET a == Abs(x)
      u == UnitOf(a, 1)
      q == a \div u
      r == a % u
      m == IF 2 * r > u \/ (2 * r = u /\ q % 2 = 1) THEN (q + 1) * u ELSE q * u
  IN IF x < 0 THEN 0 - m ELSE m

\* a + b on floats, as in sum() of bench.py:137 and running_sum += of
\* bench.py:157: the exact sum, rounded
fadd(a, b) == Round(a + b)

\* float(x) of bench.py:62 : a number is kept, a string is parsed (ValueError
\* when it is no numeral), any other JSON value raises TypeError
float(x) ==
  CASE x.kind = "num" -> [exc |-> "", value |-> Round(x.num)]
    [] x.kind = "str" ->
         LET neg == Len(x.text) > 0 /\ x.text[1] = "-"
             v == DigitsValue(IF neg THEN Tail(x.text) ELSE x.text)
         IN IF v = -1 THEN [exc |-> "ValueError"]
            ELSE [exc |-> "", value |-> Round(IF neg THEN 0 - v ELSE v)]
    [] OTHER -> [exc |-> "TypeError"]

(* ----------------------------- domain classes -------------------------- *)
Transaction(date, ledger, amount, company) ==
  [date |-> date, ledger |-> ledger, amount |-> amount, company |-> company]

Page(page_num, total_count, transactions) ==
  [page_num |-> page_num, total_count |-> total_count, transactions |-> transactions]

DailyRunningBalance(date, running_balance) ==
  [date |-> date, running_balance |-> running_balance]

(* ------------------- convert_json_to_transaction_list ------------------ *)
\* the constructor call of bench.py:62, its arguments evaluated left to right
NewTrans(trans) ==
  IF "Date" \notin DOMAIN trans THEN [exc |-> "KeyError"]
  ELSE IF "Ledger" \notin DOMAIN trans THEN [exc |-> "KeyError"]
  ELSE IF "Amount" \notin DOMAIN trans THEN [exc |-> "KeyError"]
  ELSE LET f == float(trans.Amount)
       IN IF f.exc # "" THEN [exc |-> f.exc]
          ELSE IF "Company" \notin DOMAIN trans THEN [exc |-> "KeyError"]
          ELSE [exc |-> "",
                value |-> Transaction(trans.Date, trans.Ledger, f.value, trans.Company)]

RECURSIVE ConvertFrom(_, _)
\* the for loop of bench.py:60-70 from `result` on the objects still to visit
ConvertFrom(result, rest) ==
  IF Len(rest) = 0 THEN [exc |-> "", value |-> result]
  ELSE LET t == NewTrans(Head(rest))
       IN CASE t.exc = "" -> ConvertFrom(Append(result, t.value), Tail(rest))
            [] t.exc \in {"ValueError", "KeyError"} -> ConvertFrom(result, Tail(rest))
            [] OTHER -> [exc |-> t.exc]

convert_json_to_transaction_list(transactions) == ConvertFrom(<< >>, transactions)

(* ---------------------------- requests.get ----------------------------- *)
Timeout == [kind |-> "Timeout"]
ConnectionError == [kind |-> "ConnectionError"]
Response(status_code, json) ==
  [kind |-> "response", status_code |-> status_code, json |-> json]
NoGet == [kind |-> "none"]

ResponseKeys == {"transactions", "totalCount", "page"}

\* the JSON bodies a server may send for a request of page pn: the three
\* top-level fields with the page echoed, or (with arrays over `faulty`) any
\* subset of the fields and the page echoed right or wrong
JsonBodies(pn, objects, faulty) ==
  [transactions : SeqsUpTo(objects, MaxPerPage), totalCount : 0..MaxTotal, page : {pn}]
  \cup
  { Restrict(j, K) :
      j \in [transactions : SeqsUpTo(faulty, MaxPerPage),
             totalCount : 0..MaxTotal,
             page : {pn, pn + 1}],
      K \in SUBSET ResponseKeys }

\* what one requests.get for page pn may produce
GetOutcomes(pn, objects, faulty) ==
  {Timeout, ConnectionError}
  \cup { Response(404, << >>), Response(500, << >>) }
  \cup { Response(200, j) : j \in JsonBodies(pn, objects, faulty) }

\* response.raise_for_status(): an exception for a code other than 2xx, as the
\* comment of bench.py:89 has it (the codes tried here are 200, 404 and 500)
raise_for_status(response) == ~(response.status_code \in 200..299)

\* mutant: the Page carries the number of records parsed as its total_count
TryBodyCountingRecords(pn, r) ==
  IF r.kind # "response" THEN [exc |-> r.kind]
  ELSE IF raise_for_status(r) THEN [exc |-> "HTTPError"]
  ELSE LET resp_json == r.json
       IN IF "transactions" \notin DOMAIN resp_json THEN [exc |-> "KeyError"]
          ELSE LET c == convert_json_to_transaction_list(resp_json.transactions)
               IN IF c.exc # "" THEN [exc |-> c.exc]
                  ELSE IF "page" \notin DOMAIN resp_json THEN [exc |-> "KeyError"]
                  ELSE IF resp_json.page # pn THEN [exc |-> "MismatchingPageNumber"]
                  ELSE IF "totalCount" \notin DOMAIN resp_json THEN [exc |-> "KeyError"]
                  ELSE [exc |-> "", value |-> Page(pn, Len(c.value), c.value)]

\* mutant: MismatchingPageNumber is constructed but not raised
TryBodyNotRaising(pn, r) ==
  IF r.kind # "response" THEN [exc |-> r.kind]
  ELSE IF raise_for_status(r) THEN [exc |-> "HTTPError"]
  ELSE LET resp_json == r.json
       IN IF "transactions" \notin DOMAIN resp_json THEN [exc |-> "KeyError"]
          ELSE LET c == convert_json_to_transaction_list(resp_json.transactions)
               IN IF c.exc # "" THEN [exc |-> c.exc]
                  ELSE IF "page" \notin DOMAIN resp_json THEN [exc |-> "KeyError"]
                  ELSE IF "totalCount" \notin DOMAIN resp_json THEN [exc |-> "KeyError"]
                  ELSE [exc |-> "", value |-> Page(pn, resp_json.totalCount, c.value)]

\* the try body of one pass of the retry loop, bench.py:88-94, on what
\* requests.get produced: the exception that leaves it, or the Page returned
TryBody(pn, r) ==
  IF r.kind # "response" THEN [exc |-> r.kind]
  ELSE IF raise_for_status(r) THEN [exc |-> "HTTPError"]
  ELSE LET resp_json == r.json
       IN IF "transactions" \notin DOMAIN resp_json THEN [exc |-> "KeyError"]
          ELSE LET c == convert_json_to_transaction_list(resp_json.transactions)
               IN IF c.exc # "" THEN [exc |-> c.exc]
                  ELSE IF "page" \notin DOMAIN resp_json THEN [exc |-> "KeyError"]
                  ELSE IF resp_json.page # pn THEN [exc |-> "MismatchingPageNumber"]
                  ELSE IF "totalCount" \notin DOMAIN resp_json THEN [exc |-> "KeyError"]
                  ELSE [exc |-> "", value |-> Page(pn, resp_json.totalCount, c.value)]

(* ------------------------------ aggregation ---------------------------- *)
RECURSIVE sum(_)
\* Python's sum(): left to right from 0
sum(amounts) ==
  IF Len(amounts) = 0 THEN 0
  ELSE fadd(sum(SubSeq(amounts, 1, Len(amounts) - 1)), amounts[Len(amounts)])

Amounts(ts) == [i \in 1..Len(ts) |-> ts[i].amount]

\* mutant: the first record is left out of the sum
TotalBalanceSkippingFirst(ts) ==
  IF Len(ts) = 0 THEN 0 ELSE sum(Amounts(Tail(ts)))

calculate_total_balance(ts) == sum(Amounts(ts))

\* t put behind the last element whose date is <= t.date
InsertByDate(sorted, t) ==
  LET n == Cardinality({i \in 1..Len(sorted) : sorted[i].date <= t.date})
  IN SubSeq(sorted, 1, n) \o <<t>> \o SubSeq(sorted, n + 1, Len(sorted))

\* mutant: the collection is not sorted
NotSorted(ts) == ts

RECURSIVE SortByDate(_)
\* list.sort(key = lambda t: t.date): ascending and stable
SortByDate(ts) ==
  IF Len(ts) = 0 THEN << >>
  ELSE InsertByDate(SortByDate(SubSeq(ts, 1, Len(ts) - 1)), ts[Len(ts)])

\* one pass of the for loop of bench.py:153-159 on element i of the sorted list
DailyStep(ts, i, st) ==
  LET trans == ts[i]
      changed == trans.date # st.prev_date
      daily1 == IF changed
                THEN Append(st.running_daily,
                            DailyRunningBalance(st.prev_date, st.running_sum))
                ELSE st.running_daily
      running_sum == fadd(st.running_sum, trans.amount)
      daily2 == IF i = Len(ts)
                THEN Append(daily1, DailyRunningBalance(trans.date, running_sum))
                ELSE daily1
  IN [running_daily |-> daily2,
      prev_date |-> IF changed THEN trans.date ELSE st.prev_date,
      running_sum |-> running_sum]

RECURSIVE DailyLoop(_, _)
\* the loop state after the first i elements
DailyLoop(ts, i) ==
  IF i = 0
  THEN [running_daily |-> << >>, prev_date |-> ts[1].date, running_sum |-> 0]
  ELSE DailyStep(ts, i, DailyLoop(ts, i - 1))

\* bench.py:146-160 on the list already sorted
RunningDaily(ts) ==
  IF Len(ts) = 0 THEN << >> ELSE DailyLoop(ts, Len(ts)).running_daily

(* -------------------------------- state -------------------------------- *)
VARIABLES
  transactions,      \* self.transactions
  pc,                \* "idle", "fetch" (in the retry loop), "page" (a Page is
                     \* back in the pull loop), "terminated" (the process ended)
  in_pull,           \* retrieve_next_page was called by pull_all_transactions
  pulls,             \* pull_all_transactions calls so far
  num_records_read,  \* locals of pull_all_transactions
  total_count,
  current_page,
  page_num,          \* argument and local of retrieve_next_page
  num_tries,
  page,              \* what retrieve_next_page returned last
  raised,            \* the exception that ended the process, "" if none
  exit_status,       \* None while the process runs
  outcomes,          \* what each requests.get of this retrieve_next_page call
                     \* produced, in order
  fetched,           \* the Pages returned to this pull and processed, in order
  before,            \* self.transactions when this pull started
  raw_read,          \* transaction objects the server sent in the pages of
                     \* this pull that were processed
  ret                \* the last aggregate computed and its argument

vars == <<transactions, pc, in_pull, pulls, num_records_read, total_count,
          current_page, page_num, num_tries, page, raised, exit_status,
          outcomes, fetched, before, raw_read, ret>>

pullLocals == <<num_records_read, total_count, current_page>>

\* nothing returned yet
NoPage == Page(0, None, << >>)
\* Python's None as the value returned when the retry loop is left at bench.py:86
NonePage == Page(None, None, << >>)
NoRet == [op |-> "none"]

\* BenchAPIDAO.__init__, bench.py:49-51
Init ==
  /\ transactions = << >>
  /\ pc = "idle"
  /\ in_pull = FALSE
  /\ pulls = 0
  /\ num_records_read = 0
  /\ total_count = None
  /\ current_page = 1
  /\ page_num = 0
  /\ num_tries = 0
  /\ page = NoPage
  /\ raised = ""
  /\ exit_status = None
  /\ outcomes = << >>
  /\ fetched = << >>
  /\ before = << >>
  /\ raw_read = 0
  /\ ret = NoRet

\* an exception leaves the call; no caller of bench.py:168-176 handles it, so the
\* interpreter ends with status 1, as sys.exit(1) does
Terminate(exc) ==
  /\ pc' = "terminated"
  /\ raised' = exc
  /\ exit_status' = 1

\* retrieve_next_page hands p back to its caller
Return(p) ==
  /\ page' = p
  /\ pc' = IF in_pull' THEN "page" ELSE "idle"

\* mutant: the tries counter is not set back when a fetch begins
EnterRetrieveKeepingTries(pn) ==
  /\ pc' = "fetch"
  /\ page_num' = pn
  /\ num_tries' = num_tries
  /\ outcomes' = << >>

\* entry of retrieve_next_page(pn), bench.py:82-86
EnterRetrieve(pn) ==
  /\ pc' = "fetch"
  /\ page_num' = pn
  /\ num_tries' = 0
  /\ outcomes' = << >>

\* mutant: the loop goes on while the records read equal the total
LoopConditionInclusive(tc, n) == (tc = None) \/ (n <= tc)

\* the loop condition of bench.py:124
LoopCondition(tc, n) == (tc = None) \/ (n < tc)

\* mutant: a pull begins by emptying the collection
PullStartClearing ==
  /\ pc = "idle"
  /\ pulls < MaxPulls
  /\ pulls' = pulls + 1
  /\ num_records_read' = 0
  /\ total_count' = None
  /\ current_page' = 1
  /\ in_pull' = TRUE
  /\ EnterRetrieve(1)
  /\ fetched' = << >>
  /\ before' = transactions
  /\ raw_read' = 0
  /\ page' = NoPage
  /\ ret' = NoRet
  /\ transactions' = << >>
  /\ UNCHANGED <<raised, exit_status>>

\* pull_all_transactions up to its first call of retrieve_next_page,
\* bench.py:121-125
PullStart ==
  /\ pc = "idle"
  /\ pulls < MaxPulls
  /\ pulls' = pulls + 1
  /\ num_records_read' = 0
  /\ total_count' = None
  /\ current_page' = 1
  /\ in_pull' = TRUE
  /\ EnterRetrieve(1)
  /\ fetched' = << >>
  /\ before' = transactions
  /\ raw_read' = 0
  /\ page' = NoPage
  /\ ret' = NoRet
  /\ UNCHANGED <<transactions, raised, exit_status>>

\* a direct call of retrieve_next_page(pn), as bench_test.py:58 makes it
RetrieveCall(pn) ==
  /\ pc = "idle"
  /\ in_pull' = FALSE
  /\ EnterRetrieve(pn)
  /\ page' = NoPage
  /\ UNCHANGED <<transactions, pulls, pullLocals, raised, exit_status, fetched,
                 before, raw_read, ret>>

\* mutant: the budget test off by one
BudgetExhaustedLate(n) == n > MAX_NUM_REQUEST_TRIES

\* the retry budget is used up, bench.py:98 and bench.py:105
BudgetExhausted(n) == n >= MAX_NUM_REQUEST_TRIES

\* the condition of the retry loop, bench.py:86
RetryCondition(n) == n < MAX_NUM_REQUEST_TRIES

\* mutant: an HTTP error status is retried like a timeout
TransientAndHTTPError == {"Timeout", "ConnectionError", "HTTPError"}

\* the exceptions the except clauses of bench.py:95-108 retry on
Transient == {"Timeout", "ConnectionError"}

\* the exceptions whose except clause exits at once, bench.py:109-117
FatalCaught == {"HTTPError", "KeyError"}

\* the except clauses of bench.py:95-117, the exceptions no clause catches, and
\* the loop condition of bench.py:86 after a clause that does not exit
Handle(exc) ==
  CASE exc \in Transient ->
         /\ num_tries' = num_tries + 1
         /\ IF BudgetExhausted(num_tries')
            THEN Terminate("SystemExit") /\ UNCHANGED page
            ELSE IF RetryCondition(num_tries')
            THEN UNCHANGED <<pc, raised, exit_status, page>>
            ELSE Return(NonePage) /\ UNCHANGED <<raised, exit_status>>
    [] exc \in FatalCaught ->
         /\ Terminate("SystemExit")
         /\ UNCHANGED <<num_tries, page>>
    [] OTHER ->
         /\ Terminate(exc)
         /\ UNCHANGED <<num_tries, page>>

\* one pass of the retry loop of bench.py:86-117: a GET and what follows it
Attempt(r) ==
  /\ pc = "fetch"
  /\ RetryCondition(num_tries)
  /\ page_num <= MaxPage
  /\ (r.kind = "response" /\ "transactions" \in DOMAIN r.json)
        => Len(transactions) + Len(r.json.transactions) <= MaxRecords
  /\ outcomes' = Append(outcomes, r)
  /\ UNCHANGED <<transactions, in_pull, pulls, pullLocals, page_num, fetched,
                 before, raw_read, ret>>
  /\ LET t == TryBody(page_num, r)
     IN IF t.exc = ""
        THEN /\ Return(t.value)
             /\ UNCHANGED <<num_tries, raised, exit_status>>
        ELSE Handle(t.exc)

\* mutant: the page's records are put in front of the collection
ExtendInFront(ts, p) == p.transactions \o ts

\* mutant: a page reporting a smaller totalCount is accepted
TotalCountGrew(tc, p) == tc # None /\ tc < p.total_count

\* self.transactions.extend(page.transactions), bench.py:126
Extend(ts, p) == ts \o p.transactions

\* the totalCount comparison of bench.py:127-129
TotalCountMismatch(tc, p) == tc # None /\ tc # p.total_count

\* mutant: the totalCount test comes first, a mismatching page is not appended
CollectionAfterTest(ts, tc, p) ==
  IF TotalCountMismatch(tc, p) THEN ts ELSE Extend(ts, p)

\* the collection after bench.py:126-130: the extend comes before the totalCount
\* test, so the page is appended whatever total_count is
CollectionAfter(ts, tc, p) == Extend(ts, p)

\* mutant: the pages are counted, not their records
RecordsReadCountingPages(n, p) == n + 1

\* num_records_read += len(page.transactions), bench.py:132
RecordsRead(n, p) == n + Len(p.transactions)

\* the rest of one pass of the pull loop, bench.py:126-133, then the loop
\* condition again and either the next call of retrieve_next_page or the return
PageBody ==
  /\ pc = "page"
  /\ IF page = NonePage
     THEN /\ Terminate("AttributeError")
          /\ UNCHANGED <<transactions, fetched, pullLocals, page_num, num_tries,
                         in_pull, outcomes, raw_read>>
     ELSE /\ transactions' = CollectionAfter(transactions, total_count, page)
          /\ fetched' = Append(fetched, page)
          /\ raw_read' = raw_read + Len(outcomes[Len(outcomes)].json.transactions)
          /\ IF TotalCountMismatch(total_count, page)
             THEN /\ Terminate("MismatchingTotalCountError")
                  /\ UNCHANGED <<pullLocals, page_num, num_tries, in_pull, outcomes>>
             ELSE /\ total_count' = page.total_count
                  /\ num_records_read' = RecordsRead(num_records_read, page)
                  /\ current_page' = current_page + 1
                  /\ IF LoopCondition(total_count', num_records_read')
                     THEN /\ EnterRetrieve(current_page')
                          /\ UNCHANGED in_pull
                     ELSE /\ pc' = "idle"
                          /\ in_pull' = FALSE
                          /\ UNCHANGED <<page_num, num_tries, outcomes>>
                  /\ UNCHANGED <<raised, exit_status>>
  /\ UNCHANGED <<pulls, page, before, ret>>

\* a call of calculate_total_balance, bench.py:136-137
TotalBalance ==
  /\ pc = "idle"
  /\ ret' = [op |-> "calculate_total_balance", arg |-> transactions,
             value |-> calculate_total_balance(transactions)]
  /\ UNCHANGED <<transactions, pc, in_pull, pulls, pullLocals, page_num,
                 num_tries, page, raised, exit_status, outcomes, fetched, before,
                 raw_read>>

\* a call of calculate_running_daily_balance, bench.py:139-160
RunningDailyBalance ==
  /\ pc = "idle"
  /\ transactions' = SortByDate(transactions)
  /\ ret' = [op |-> "calculate_running_daily_balance", arg |-> transactions,
             value |-> RunningDaily(transactions')]
  /\ UNCHANGED <<pc, in_pull, pulls, pullLocals, page_num, num_tries, page,
                 raised, exit_status, outcomes, fetched, before, raw_read>>

(* ---------------------------- the program ------------------------------ *)
\* the transaction objects the server of the pull sessions sends
PullObjects ==
  { o \in GoodObjects : o.Ledger = "CIBC" }
  \cup { o \in BadObjects : DOMAIN o = TransactionKeys /\ o.Amount \in {Null, Str(<<"a">>)} }

\* a GET of a pull: responses lacking a field or echoing another page carry an
\* empty transactions array here; SpecFetch tries them with every array
Get ==
  /\ pc = "fetch"
  /\ \E r \in GetOutcomes(page_num, PullObjects, {}) : Attempt(r)

Next ==
  \/ PullStart
  \/ Get
  \/ PageBody
  \/ TotalBalance
  \/ RunningDailyBalance

\* pulls and aggregations on one BenchAPIDAO
Spec == Init /\ [][Next]_vars

(* ----------------------- retrieve_next_page alone ---------------------- *)
AllObjects == GoodObjects \cup BadObjects

GetAny ==
  /\ pc = "fetch"
  /\ \E r \in GetOutcomes(page_num, AllObjects, AllObjects) : Attempt(r)

Retrieve == \E pn \in 1..MaxPage : RetrieveCall(pn)

NextFetch ==
  \/ Retrieve
  \/ GetAny

\* retrieve_next_page called directly, on every kind of response
SpecFetch == Init /\ [][NextFetch]_vars

(* --------------------------- the aggregations -------------------------- *)
\* longest collection the aggregations are tried on
MaxLen == 3

SampleTransactions ==
  { Transaction(d, "CIBC", a, "Bench") : d \in 1..3, a \in {-2, 1, 2, 7} }

\* a BenchAPIDAO whose collection was filled, as bench_test.py:176 fills it
InitAgg ==
  /\ transactions \in SeqsUpTo(SampleTransactions, MaxLen)
  /\ pc = "idle"
  /\ in_pull = FALSE
  /\ pulls = 0
  /\ num_records_read = 0
  /\ total_count = None
  /\ current_page = 1
  /\ page_num = 0
  /\ num_tries = 0
  /\ page = NoPage
  /\ raised = ""
  /\ exit_status = None
  /\ outcomes = << >>
  /\ fetched = << >>
  /\ before = << >>
  /\ raw_read = 0
  /\ ret = NoRet

NextAgg ==
  \/ TotalBalance
  \/ RunningDailyBalance

\* the two aggregations on every collection up to MaxLen records
SpecAgg == InitAgg /\ [][NextAgg]_vars

(* ============================== claims ================================ *)
Last(seq) == seq[Len(seq)]

IsTransient(o) == o.kind \in {"Timeout", "ConnectionError"}

Is2xx(o) == o.kind = "response" /\ o.status_code \in 200..299

\* a 2xx response with the three top-level fields that echoes page pn
CompleteResponse(o, pn) ==
  /\ Is2xx(o)
  /\ ResponseKeys \subseteq DOMAIN o.json
  /\ o.json.page = pn

\* a complete response whose Amounts are strings or numbers, the documented shape
WellFormedResponse(o, pn) ==
  /\ CompleteResponse(o, pn)
  /\ \A i \in 1..Len(o.json.transactions) :
        "Amount" \in DOMAIN o.json.transactions[i]
           => o.json.transactions[i].Amount.kind \in {"str", "num"}

\* a response with a non-2xx status, or a 2xx one lacking a top-level field
FaultyResponse(o) ==
  /\ o.kind = "response"
  /\ ~Is2xx(o) \/ ~(ResponseKeys \subseteq DOMAIN o.json)

\* the call ended the process on its last GET: nothing was returned and no
\* further GET can be issued
EndedOnThisAttempt ==
  /\ pc = "terminated"
  /\ exit_status = 1
  /\ page = NoPage
  /\ ~ENABLED GetAny

\* C1: when both attempts of one retrieve_next_page call fail with a timeout or
\* a connection failure, in any mix and for any page number, no Page is
\* returned and the process ends by sys.exit(1).
C1_TwoTransientFailuresExit ==
  (Len(outcomes) = 2 /\ IsTransient(outcomes[1]) /\ IsTransient(outcomes[2]))
     => EndedOnThisAttempt /\ raised = "SystemExit"

C1_Witness ==
  /\ outcomes = <<Timeout, ConnectionError>>
  /\ page_num = 2
  /\ pc = "terminated"
  /\ exit_status = 1

\* C2: when the first attempt fails with a timeout or a connection failure and
\* the second gets a well-formed 2xx response echoing the requested page, the
\* call returns the Page of that response (its totalCount, its parsed records),
\* the process goes on and no exception is raised.
C2_RetryReturnsSecondResponse ==
  (Len(outcomes) = 2 /\ IsTransient(outcomes[1])
     /\ WellFormedResponse(outcomes[2], page_num))
     => /\ pc = "idle"
        /\ raised = ""
        /\ exit_status = None
        /\ page = Page(page_num, outcomes[2].json.totalCount,
                       convert_json_to_transaction_list(
                          outcomes[2].json.transactions).value)

C2_Witness ==
  /\ Len(outcomes) = 2
  /\ outcomes[1] = Timeout
  /\ WellFormedResponse(outcomes[2], page_num)
  /\ pc = "idle"
  /\ page.total_count = 2
  /\ Len(page.transactions) = 1
  /\ Len(outcomes[2].json.transactions) = 2

\* C3: an attempt that receives a non-2xx status, or a 2xx response lacking
\* transactions, totalCount or page, ends the process with exit status 1 on that
\* very attempt, the first or the retry, and no further GET is issued.  The
\* exit is sys.exit(1), except that a response with transactions whose page
\* differs or whose parsing raises ends it by that uncaught exception.
C3_FaultyResponseIsFatalAtOnce ==
  (Len(outcomes) > 0 /\ FaultyResponse(Last(outcomes)))
     => /\ EndedOnThisAttempt
        /\ (~Is2xx(Last(outcomes))
              \/ "transactions" \notin DOMAIN Last(outcomes).json
              \/ "page" \notin DOMAIN Last(outcomes).json
              \/ Last(outcomes).json.page = page_num)
             => raised \in {"SystemExit", "TypeError"}
        /\ raised = "TypeError"
             => /\ "transactions" \in DOMAIN Last(outcomes).json
                /\ \E i \in 1..Len(Last(outcomes).json.transactions) :
                      /\ "Amount" \in DOMAIN Last(outcomes).json.transactions[i]
                      /\ Last(outcomes).json.transactions[i].Amount = Null

C3_Witness ==
  /\ Len(outcomes) = 2
  /\ outcomes[1] = ConnectionError
  /\ Is2xx(outcomes[2])
  /\ DOMAIN outcomes[2].json = {"transactions", "page"}
  /\ pc = "terminated"
  /\ raised = "SystemExit"
  /\ exit_status = 1

\* C4: every Page retrieve_next_page returns comes from a response whose page
\* field equals the requested page number; a 2xx response echoing another page
\* is fatal on that attempt, with no retry, and once its transactions are
\* parsed the error is MismatchingPageNumber.
C4_PageNumberMismatchIsFatal ==
  /\ (pc = "idle" /\ page # NoPage)
        => /\ Len(outcomes) > 0
           /\ CompleteResponse(Last(outcomes), page_num)
           /\ page.page_num = page_num
  /\ (Len(outcomes) > 0 /\ Is2xx(Last(outcomes))
        /\ "page" \in DOMAIN Last(outcomes).json
        /\ Last(outcomes).json.page # page_num)
        => /\ EndedOnThisAttempt
           /\ raised \in {"MismatchingPageNumber", "SystemExit", "TypeError"}
           /\ raised = "SystemExit" <=> "transactions" \notin DOMAIN Last(outcomes).json
           /\ ("transactions" \in DOMAIN Last(outcomes).json
                 /\ convert_json_to_transaction_list(
                       Last(outcomes).json.transactions).exc = "")
                => raised = "MismatchingPageNumber"

C4_Witness ==
  /\ Len(outcomes) = 1
  /\ Is2xx(outcomes[1])
  /\ ResponseKeys \subseteq DOMAIN outcomes[1].json
  /\ outcomes[1].json.page = page_num + 1
  /\ Len(outcomes[1].json.transactions) = 1
  /\ raised = "MismatchingPageNumber"
  /\ pc = "terminated"

(* ------------------------- the pull loop (Spec) ------------------------ *)
RECURSIVE RecordsOf(_, _)
\* the records of the first k pages, page after page
RecordsOf(pages, k) ==
  IF k = 0 THEN << >> ELSE RecordsOf(pages, k - 1) \o pages[k].transactions

\* the last pull_all_transactions call returned normally
PullReturned == pc = "idle" /\ pulls > 0

\* C5: in one pull, a page after the first that reports another totalCount than
\* the first page ends the pull with MismatchingTotalCountError and no further
\* page is fetched; when the pull returns, all its pages reported one totalCount.
C5_OneTotalCountPerPull ==
  /\ \A i \in 2..Len(fetched) :
        fetched[i].total_count # fetched[1].total_count
           => /\ i = Len(fetched)
              /\ pc = "terminated"
              /\ raised = "MismatchingTotalCountError"
              /\ ~ENABLED Get
  /\ PullReturned
        => \A i \in 1..Len(fetched) : fetched[i].total_count = fetched[1].total_count

C5_Witness ==
  /\ Len(fetched) = 2
  /\ fetched[1].total_count = 2
  /\ fetched[2].total_count = 1
  /\ raised = "MismatchingTotalCountError"
  /\ pc = "terminated"

\* C6: when a pull started on an empty collection returns after fetching pages
\* 1..k, the collection is the records of pages 1..k in page order and in the
\* order within each page, none lost, duplicated or moved.
C6_CollectionIsPagesInOrder ==
  (PullReturned /\ ret = NoRet /\ before = << >>)
     => /\ transactions = RecordsOf(fetched, Len(fetched))
        /\ \A i \in 1..Len(fetched) : fetched[i].page_num = i

C6_Witness ==
  /\ PullReturned
  /\ ret = NoRet
  /\ before = << >>
  /\ Len(fetched) = 2
  /\ fetched[1].total_count = 2
  /\ Len(fetched[1].transactions) = 1
  /\ Len(fetched[2].transactions) = 1
  /\ fetched[1].transactions # fetched[2].transactions
  /\ Len(transactions) = 2

\* C7: a pull fetches page 1 first; after a page it fetches the next one exactly
\* when the records read so far are fewer than totalCount, and returns as soon
\* as they are not; a first page with totalCount 0 and no transactions ends the
\* pull after one fetch with nothing added.
C7_LoopStopsAtTotalCount ==
  /\ (in_pull /\ pc \in {"fetch", "page"})
        => /\ page_num = Len(fetched) + 1
           /\ page_num = current_page
           /\ fetched # << >>
                => Len(RecordsOf(fetched, Len(fetched))) < fetched[1].total_count
  /\ PullReturned
        => /\ fetched # << >>
           /\ Len(RecordsOf(fetched, Len(fetched))) >= fetched[1].total_count
           /\ \A k \in 1..(Len(fetched) - 1) :
                 Len(RecordsOf(fetched, k)) < fetched[1].total_count
  /\ (pulls > 0 /\ fetched # << >> /\ raised # "MismatchingTotalCountError")
        => /\ num_records_read = Len(RecordsOf(fetched, Len(fetched)))
           /\ total_count = fetched[1].total_count
  /\ (fetched # << >> /\ fetched[1].total_count = 0 /\ fetched[1].transactions = << >>)
        => /\ Len(fetched) = 1
           /\ PullReturned
           /\ ret = NoRet => transactions = before

C7_Witness ==
  /\ PullReturned
  /\ Len(fetched) = 1
  /\ fetched[1].total_count = 0
  /\ fetched[1].transactions = << >>
  /\ transactions = << >>

(* ------------------------------- parsing ------------------------------- *)
\* a transaction object with the four keys and an Amount that is a decimal number
WellFormedObject(o) ==
  /\ TransactionKeys \subseteq DOMAIN o
  /\ float(o.Amount).exc = ""

\* the records of the well-formed objects, in their order
WellFormedRecords(objects) ==
  LET good == SelectSeq(objects, WellFormedObject)
  IN [i \in 1..Len(good) |->
        Transaction(good[i].Date, good[i].Ledger, float(good[i].Amount).value,
                    good[i].Company)]

\* C8: parsing the transactions array never fails the fetch: a complete 2xx
\* response yields a Page whose records are exactly the well-formed objects, in
\* order, every other object (a key missing, an Amount that is no decimal
\* number, null included) being dropped.
C8_ParsingNeverFailsTheFetch ==
  (Len(outcomes) > 0 /\ CompleteResponse(Last(outcomes), page_num))
     => /\ pc = "idle"
        /\ raised = ""
        /\ page.transactions = WellFormedRecords(Last(outcomes).json.transactions)

(* ----------------------------- aggregations ---------------------------- *)
RECURSIVE FloatSum(_, _)
\* the amounts of the first n records of ts added up as floats, in the order
\* of ts
FloatSum(ts, n) ==
  IF n = 0 THEN 0 ELSE fadd(FloatSum(ts, n - 1), ts[n].amount)

\* the records of ts dated d, in the order they have in ts
DatedIn(ts, d) ==
  LET Dated(t) == t.date = d
  IN SelectSeq(ts, Dated)

RECURSIVE ByDateOver(_, _)
\* the records of ts with a date in D, day after day, those of one day in the
\* order they have in ts
ByDateOver(ts, D) ==
  IF D = {} THEN << >>
  ELSE LET d == CHOOSE d \in D : \A e \in D : d <= e
       IN DatedIn(ts, d) \o ByDateOver(ts, D \ {d})

DatesOf(ts) == { ts[i].date : i \in 1..Len(ts) }

\* C9: for a collection in any order, the running daily balance has exactly one
\* entry per date present, in strictly ascending date order, each with the sum
\* of the amounts of all records dated that day or before (the float sum, the
\* amounts added day after day); none for no records.
C9_RunningDailyBalance ==
  ret.op = "calculate_running_daily_balance"
     => LET ts == ret.arg
            out == ret.value
        IN /\ Len(out) = Cardinality(DatesOf(ts))
           /\ { out[i].date : i \in 1..Len(out) } = DatesOf(ts)
           /\ \A i \in 1..Len(out) : \A j \in 1..Len(out) :
                 i < j => out[i].date < out[j].date
           /\ \A i \in 1..Len(out) :
                 out[i].running_balance =
                    FloatSum(ByDateOver(ts, { d \in DatesOf(ts) : d <= out[i].date }),
                             Cardinality({ k \in 1..Len(ts) : ts[k].date <= out[i].date }))
           /\ ts = << >> => out = << >>

C9_Witness ==
  /\ ret.op = "calculate_running_daily_balance"
  /\ Len(ret.arg) = 3
  /\ ret.arg[1].date = 2
  /\ ret.arg[2].date = 2
  /\ ret.arg[3].date = 1
  /\ Len(ret.value) = 2
  /\ ret.value[2].running_balance = 2

\* C10: the total balance is the sum of the amounts of all records of the
\* collection (the float sum, the amounts added in the order of the
\* collection), 0 for none, and computing it leaves the collection as it was.
C10_TotalBalance ==
  ret.op = "calculate_total_balance"
     => /\ ret.value = FloatSum(ret.arg, Len(ret.arg))
        /\ ret.arg = << >> => ret.value = 0
        /\ transactions = ret.arg

C10_Witness ==
  /\ ret.op = "calculate_total_balance"
  /\ Len(ret.arg) = 3
  /\ ret.arg[1].amount = 1
  /\ ret.arg[2].amount = -2
  /\ ret.arg[3].amount = 7
  /\ ret.value = 6
  /\ transactions = ret.arg

(* ------------------------ the pull as a whole -------------------------- *)
\* a pass of the pull loop that ends with the loop going on to the next page
PassGoesOn == pc = "page" /\ pc' = "fetch"

\* C11: whatever the server answers, a pull stops: it cannot fetch pages for
\* ever.  The loop's reaction to a page does not depend on the page's number,
\* so a pass that goes on without having read a record can be repeated without
\* end by a server that repeats its answer; the pull stops for every server
\* exactly when every pass that goes on has brought num_records_read closer to
\* total_count.
C11_EveryPassMakesProgress ==
  [][PassGoesOn => num_records_read' > num_records_read]_vars

\* a GET is issued in this step
IsGet == Len(outcomes') = Len(outcomes) + 1

\* C12: within a pull the GETs go up by page number: the first is for page 1,
\* page n + 1 is requested only after the fetch of page n returned a Page, no
\* page is skipped, and a page number is requested at most twice, the two
\* tries being counted anew for each fetch.
C12_RequestsInPageOrder ==
  /\ [](/\ (in_pull /\ pc \in {"fetch", "page"})
            => /\ page_num = Len(fetched) + 1
               /\ \A i \in 1..Len(fetched) : fetched[i].page_num = i
        /\ Len(outcomes) <= MAX_NUM_REQUEST_TRIES
        /\ pc = "fetch" => num_tries = Len(outcomes)
        /\ \A i \in 1..(Len(outcomes) - 1) : IsTransient(outcomes[i]))
  /\ [][/\ IsGet => (pc = "fetch" /\ page_num' = page_num)
        /\ pulls' # pulls => (page_num' = 1 /\ outcomes' = << >> /\ num_tries' = 0)
        /\ (pulls' = pulls /\ page_num' # page_num)
             => /\ pc = "page"
                /\ page.page_num = page_num
                /\ page_num' = page_num + 1
                /\ outcomes' = << >>
                /\ num_tries' = 0]_vars

C12_Witness ==
  /\ in_pull
  /\ pc = "page"
  /\ page_num = 2
  /\ Len(fetched) = 1
  /\ Len(outcomes) = 2
  /\ IsTransient(outcomes[1])
  /\ page.page_num = 2

\* a call of retrieve_next_page has ended
FetchEnded == pc # "fetch" /\ outcomes # << >>

\* C13: every call of retrieve_next_page ends in exactly one of three ways: it
\* returns a Page, it exits the process with status 1 through sys.exit, or it
\* raises MismatchingPageNumber; the retry loop is never left by falling
\* through with the tries used up, so the call never returns None.
C13_ThreeOutcomes ==
  /\ pc = "fetch" => RetryCondition(num_tries)
  /\ page # NonePage
  /\ FetchEnded
       => \/ /\ pc \in {"idle", "page"}
             /\ raised = ""
             /\ page # NoPage
             /\ page.page_num = page_num
          \/ /\ pc = "terminated"
             /\ raised = "SystemExit"
             /\ exit_status = 1
             /\ page = NoPage
          \/ /\ pc = "terminated"
             /\ raised = "MismatchingPageNumber"
             /\ page = NoPage

\* the loop passes of this pull so far all ran to their end
PassesCompleted == pulls > 0 /\ raised # "MismatchingTotalCountError"

\* C14: num_records_read is the number of records this pull has appended to
\* the collection (those that survived parsing), not the number of transaction
\* objects the server sent; so when the pages sent hold exactly totalCount
\* objects and one of them was dropped, the pull does not return after the last
\* of these pages but goes on to request the page after it.
C14_CountsParsedRecords ==
  /\ PassesCompleted
       => /\ num_records_read = Len(transactions) - Len(before)
          /\ num_records_read = Len(RecordsOf(fetched, Len(fetched)))
          /\ num_records_read <= raw_read
  /\ (PassesCompleted /\ fetched # << >>
        /\ raw_read = total_count /\ num_records_read < raw_read)
       => /\ ~PullReturned
          /\ pc \in {"fetch", "page", "terminated"}
          /\ page_num = Len(fetched) + 1

C14_Witness ==
  /\ in_pull
  /\ pc = "page"
  /\ Len(fetched) = 1
  /\ Len(fetched[1].transactions) = 1
  /\ raw_read = 2
  /\ total_count = 2
  /\ num_records_read = 1
  /\ page_num = 2
  /\ page.page_num = 2

\* C15: the totalCount test comes after the append: when a pull fails with
\* MismatchingTotalCountError on page k, the collection already holds the
\* parsed records of pages 1..k, those of the mismatching page k included, and
\* nothing is taken back.
C15_MismatchAfterAppend ==
  raised = "MismatchingTotalCountError"
     => LET k == Len(fetched)
        IN /\ pc = "terminated"
           /\ k >= 2
           /\ fetched[k].page_num = k
           /\ fetched[k].total_count # fetched[1].total_count
           /\ transactions = before \o RecordsOf(fetched, k)
           /\ num_records_read = Len(RecordsOf(fetched, k - 1))

C15_Witness ==
  /\ raised = "MismatchingTotalCountError"
  /\ Len(fetched) = 2
  /\ Len(fetched[1].transactions) = 1
  /\ Len(fetched[2].transactions) = 1
  /\ fetched[1].transactions # fetched[2].transactions
  /\ transactions = fetched[1].transactions \o fetched[2].transactions

\* how often x occurs in seq
Count(seq, x) == Cardinality({ i \in 1..Len(seq) : seq[i] = x })

Range(seq) == { seq[i] : i \in 1..Len(seq) }

\* a and b hold the same records, each as often
SameRecords(a, b) == \A x \in Range(a) \cup Range(b) : Count(a, x) = Count(b, x)

\* C16: every call of pull_all_transactions sets its counters back and leaves
\* the collection as it is: it fetches from page 1 again and appends to what
\* is there, so two normal pulls against the same pages leave every record in
\* the collection twice; no other operation adds records to the collection.
C16_PullAppendsToCollection ==
  /\ [](/\ (pulls > 0 /\ ret = NoRet)
            => transactions = before \o RecordsOf(fetched, Len(fetched))
        /\ (in_pull /\ fetched = << >> /\ pc \in {"fetch", "page"})
            => /\ page_num = 1
               /\ num_records_read = 0
               /\ total_count = None
               /\ transactions = before
        /\ (pulls = 2 /\ PullReturned
              /\ SameRecords(RecordsOf(fetched, Len(fetched)), before))
            => /\ Len(transactions) = 2 * Len(before)
               /\ \A x \in Range(transactions) :
                     Count(transactions, x) = 2 * Count(before, x))
  /\ [][/\ pulls' # pulls
             => /\ transactions' = transactions
                /\ num_records_read' = 0
                /\ total_count' = None
                /\ current_page' = 1
                /\ page_num' = 1
        /\ Len(transactions') > Len(transactions) => (in_pull /\ pc = "page")
        /\ ~(in_pull /\ pc = "page") => SameRecords(transactions', transactions)]_vars

C16_Witness ==
  /\ pulls = 2
  /\ PullReturned
  /\ ret = NoRet
  /\ before # << >>
  /\ RecordsOf(fetched, Len(fetched)) = before
  /\ transactions = before \o before

\* C17: calculate_running_daily_balance only reorders the collection, by a
\* stable sort on the date: it adds, removes and alters no record, so the total
\* balance is the same before and after, and for a collection that is not
\* empty the running balance of the last entry returned is the total balance.
\* (The total balances are the values calculate_total_balance returns on the
\* collection as it was before the call and as it is after it.)
C17_DailyBalanceOnlyReorders ==
  ret.op = "calculate_running_daily_balance"
     => LET ts == ret.arg
            out == ret.value
        IN /\ Len(transactions) = Len(ts)
           /\ SameRecords(transactions, ts)
           /\ \A i \in 1..Len(transactions) : \A j \in 1..Len(transactions) :
                 i < j => transactions[i].date <= transactions[j].date
           /\ \A d \in DatesOf(ts) : DatedIn(transactions, d) = DatedIn(ts, d)
           /\ calculate_total_balance(transactions) = calculate_total_balance(ts)
           /\ ts # << >>
                => Last(out).running_balance = calculate_total_balance(transactions)
====
